---- MODULE Spec2Model ----
(***************************************************************************)
(* Model of the maze engine of src/test.py: the randomized depth-first     *)
(* maze generator (Maze._generate), the grid expansion (Maze.to_grid), the *)
(* breadth-first path solver (bfs_shortest_path), the renderer             *)
(* (build_visual_grid, wall_box_char), the key loop and the animation of   *)
(* main_curses, and the argument handling of __main__.                     *)
(***************************************************************************)
EXTENDS Integers, Sequences, FiniteSets, TLC

\* ------------------------------------------------------------------ bounds
\* Largest number of maze cells (cell_cols * cell_rows) of a generated maze.
MaxCells == 12

\* ------------------------------------------------------------------ constants
\* Python's None.
None == <<>>

\* Grid cell values: a passage is " ", a wall is the block U+2588.
PASSAGE == " "
WALL == "U+2588"

\* DIRS, in the insertion order of the dict (N, S, W, E).
DirOrder == <<"N", "S", "W", "E">>
DIRS == [N |-> <<0, -1>>, S |-> <<0, 1>>, W |-> <<-1, 0>>, E |-> <<1, 0>>]
OPPOSITE == [N |-> "S", S |-> "N", W |-> "E", E |-> "W"]
Dirs == {"N", "S", "W", "E"}

VARIABLES
    pc,         \* position of the program
    cell_cols,  \* Maze.cell_cols
    cell_rows,  \* Maze.cell_rows
    cells,      \* Maze.cells: cell -> set of open directions
    stack,      \* _generate: the stack of cells
    visited,    \* _generate: the visited set
    grid,       \* the display grid, grid[y][x]
    start,      \* start grid coordinate
    end,        \* end grid coordinate
    goal,       \* bfs_shortest_path: goal
    q,          \* bfs_shortest_path: the deque
    prev,       \* bfs_shortest_path: predecessor map
    path,       \* bfs_shortest_path: the returned path
    rng,        \* state of the module-level generator of `random`
    seed,       \* the seed given to Maze: <<s>>, or None
    first,      \* history: seed -> the maze first constructed with it
    pathset,    \* build_visual_grid: pathset
    player,     \* build_visual_grid: player
    visual,     \* build_visual_grid: the rows returned
    info,       \* draw_in_curses: the info lines of the last frame
    ndraw,      \* history: draw_in_curses calls made by the last step
    ch,         \* main_curses: the key read by the main loop
    poll_c,     \* main_curses: c, the key read by the poll of a frame
    frame_i,    \* main_curses: i, the index of the next animation frame
    poll_timeout, \* the input timeout of stdscr: -1 is blocking
    inbuf,      \* the keys typed and not yet read by a getch, oldest first
    argv,       \* sys.argv after the program name
    stdout,     \* the lines printed
    exit_status \* <<n>> after sys.exit(n), or None

vars == <<pc, cell_cols, cell_rows, cells, stack, visited, grid, start, end,
          goal, q, prev, path, rng, seed, first, pathset, player, visual,
          info, ndraw, ch, poll_c, frame_i, poll_timeout, inbuf, argv, stdout,
          exit_status>>

seedVars == <<rng, seed, first>>
renderVars == <<pathset, player, visual>>
ctlVars == <<info, ndraw, ch, poll_c, frame_i, poll_timeout, inbuf>>
cliVars == <<argv, stdout, exit_status>>

genVars == <<cell_cols, cell_rows, cells, stack, visited>>
bfsVars == <<goal, q, prev, path>>

\* ------------------------------------------------------------------ generator
\* The keys of Maze.cells.
CellsOf(cols, rows) == (0 .. cols - 1) \X (0 .. rows - 1)
Cell == CellsOf(cell_cols, cell_rows)

\* The cell one step from c in direction d.
Step(c, d) == <<c[1] + DIRS[d][1], c[2] + DIRS[d][2]>>

\* Whether the neighbour n may be chosen: in bounds and not visited.
Eligible(n, vis, cols, rows) ==
    /\ 0 <= n[1] /\ n[1] < cols
    /\ 0 <= n[2] /\ n[2] < rows
    /\ n \notin vis

\* The list `neighbors` built for the cell c on top of the stack: the
\* directions, in DIRS order, whose neighbour is in bounds and unvisited.
NeighborsOf(c, vis, cols, rows) ==
    SelectSeq(DirOrder, LAMBDA d : Eligible(Step(c, d), vis, cols, rows))

\* Carve with the direction d recorded on both cells.
Carve_SameDir(cs, c, d, n) ==
    [cs EXCEPT ![c] = @ \cup {d}, ![n] = cs[n] \cup {d}]

\* Recording the direction d as open on c and its opposite on n.
Carve(cs, c, d, n) ==
    [cs EXCEPT ![c] = @ \cup {d}, ![n] = cs[n] \cup {OPPOSITE[d]}]

\* GenCarve without stack.append((nx, ny)).
GenCarve_NoPush ==
    /\ pc = "generate"
    /\ stack # <<>>
    /\ LET c == stack[Len(stack)]
           neighbors == NeighborsOf(c, visited, cell_cols, cell_rows)
       IN /\ neighbors # <<>>
          /\ \E i \in 1 .. Len(neighbors) :
                LET d == neighbors[i]
                    n == Step(c, d)
                IN /\ cells' = Carve(cells, c, d, n)
                   /\ visited' = visited \cup {n}
                   /\ stack' = stack
    /\ UNCHANGED <<ctlVars, cliVars, seedVars, renderVars, pc, cell_cols, cell_rows, grid, start, end, bfsVars>>

\* One iteration of the while loop that finds a neighbour: any element of
\* the list may be the one random.choice returns.
GenCarve ==
    /\ pc = "generate"
    /\ stack # <<>>
    /\ LET c == stack[Len(stack)]
           neighbors == NeighborsOf(c, visited, cell_cols, cell_rows)
       IN /\ neighbors # <<>>
          /\ \E i \in 1 .. Len(neighbors) :
                LET d == neighbors[i]
                    n == Step(c, d)
                IN /\ cells' = Carve(cells, c, d, n)
                   /\ visited' = visited \cup {n}
                   /\ stack' = Append(stack, n)
    /\ UNCHANGED <<ctlVars, cliVars, seedVars, renderVars, pc, cell_cols, cell_rows, grid, start, end, bfsVars>>

\* The iteration that finds no neighbour and pops the bottom of the stack
\* (stack.pop(0)).
GenPop_PopBottom ==
    /\ pc = "generate"
    /\ stack # <<>>
    /\ NeighborsOf(stack[Len(stack)], visited, cell_cols, cell_rows) = <<>>
    /\ stack' = Tail(stack)
    /\ UNCHANGED <<ctlVars, cliVars, seedVars, renderVars, pc, cell_cols,
                   cell_rows, cells, visited, grid, start, end, bfsVars>>

\* The iteration that finds no neighbour and leaves the stack as it is.
GenPop_NoPop ==
    /\ pc = "generate"
    /\ stack # <<>>
    /\ NeighborsOf(stack[Len(stack)], visited, cell_cols, cell_rows) = <<>>
    /\ UNCHANGED vars

\* One iteration of the while loop that finds no neighbour: pop.
GenPop ==
    /\ pc = "generate"
    /\ stack # <<>>
    /\ NeighborsOf(stack[Len(stack)], visited, cell_cols, cell_rows) = <<>>
    /\ stack' = SubSeq(stack, 1, Len(stack) - 1)
    /\ UNCHANGED <<ctlVars, cliVars, seedVars, renderVars, pc, cell_cols, cell_rows, cells, visited, grid, start, end,
                   bfsVars>>

\* State at the top of the while loop of _generate, first iteration.
GenInit(cols, rows) ==
    /\ pc = "generate"
    /\ cell_cols = cols
    /\ cell_rows = rows
    /\ cells = [c \in CellsOf(cols, rows) |-> {}]
    /\ stack = << <<0, 0>> >>
    /\ visited = { <<0, 0>> }

\* The variables of a part of the program that has not run.
NoBfs == goal = None /\ q = <<>> /\ prev = <<>> /\ path = <<>>
NoSeed == rng = 0 /\ seed = None /\ first = <<>>
NoRender == pathset = {} /\ player = None /\ visual = <<>>
NoCtl ==
    /\ info = <<>>
    /\ ndraw = 0
    /\ ch = -1
    /\ poll_c = -1
    /\ frame_i = 0
    /\ poll_timeout = -1
    /\ inbuf = <<>>
NoCli == argv = <<>> /\ stdout = <<>> /\ exit_status = None
NoGen ==
    /\ cell_cols = 0
    /\ cell_rows = 0
    /\ cells = <<>>
    /\ stack = <<>>
    /\ visited = {}

Init ==
    /\ \E cols \in 1 .. MaxCells, rows \in 1 .. MaxCells :
          cols * rows <= MaxCells /\ GenInit(cols, rows)
    /\ grid = <<>>
    /\ start = None
    /\ end = None
    /\ NoBfs
    /\ NoSeed
    /\ NoRender
    /\ NoCtl
    /\ NoCli

\* ------------------------------------------------------------------ grid
\* to_grid that opens the east and south of every cell, whatever its dirs.
to_grid_NoWalls(cs, cols, rows) ==
    [gy \in 0 .. 2 * rows |->
        [gx \in 0 .. 2 * cols |->
            IF gx % 2 = 1 /\ gy % 2 = 1
                THEN PASSAGE
            ELSE IF gx % 2 = 0 /\ gy % 2 = 1 /\ gx >= 2 /\ gx < 2 * cols
                THEN PASSAGE
            ELSE IF gx % 2 = 1 /\ gy % 2 = 0 /\ gy >= 2 /\ gy < 2 * rows
                THEN PASSAGE
            ELSE WALL]]

\* to_grid in which the "S" branch opens nothing.
to_grid_NoSouth(cs, cols, rows) ==
    [gy \in 0 .. 2 * rows |->
        [gx \in 0 .. 2 * cols |->
            IF gx % 2 = 1 /\ gy % 2 = 1
                THEN PASSAGE
            ELSE IF gx % 2 = 0 /\ gy % 2 = 1 /\ gx >= 2
                THEN IF "E" \in cs[<<(gx - 2) \div 2, (gy - 1) \div 2>>]
                        THEN PASSAGE ELSE WALL
            ELSE WALL]]

\* Maze.to_grid: a grid of 2*cell_rows+1 rows and 2*cell_cols+1 columns, all
\* wall, in which every cell (x, y) opens (2x+1, 2y+1), opens (2x+2, 2y+1)
\* when it records "E" and opens (2x+1, 2y+2) when it records "S".
to_grid(cs, cols, rows) ==
    [gy \in 0 .. 2 * rows |->
        [gx \in 0 .. 2 * cols |->
            IF gx % 2 = 1 /\ gy % 2 = 1
                THEN PASSAGE
            ELSE IF gx % 2 = 0 /\ gy % 2 = 1 /\ gx >= 2
                THEN IF "E" \in cs[<<(gx - 2) \div 2, (gy - 1) \div 2>>]
                        THEN PASSAGE ELSE WALL
            ELSE IF gx % 2 = 1 /\ gy % 2 = 0 /\ gy >= 2
                THEN IF "S" \in cs[<<(gx - 1) \div 2, (gy - 2) \div 2>>]
                        THEN PASSAGE ELSE WALL
            ELSE WALL]]

\* Maze.start_end_positions.
start_end_positions(cols, rows) ==
    LET start_cell == <<0, 0>>
        end_cell == <<cols - 1, rows - 1>>
    IN << <<start_cell[1] * 2 + 1, start_cell[2] * 2 + 1>>,
          <<end_cell[1] * 2 + 1, end_cell[2] * 2 + 1>> >>

\* len(grid) and len(grid[0]).
GridRows(g) == Cardinality(DOMAIN g)
GridCols(g) == Cardinality(DOMAIN g[0])

\* The while loop of _generate ends (the stack is empty) and make_and_draw
\* derives the grid and the start and end coordinates from the maze.
ToGrid ==
    /\ pc = "generate"
    /\ stack = <<>>
    /\ grid' = to_grid(cells, cell_cols, cell_rows)
    /\ start' = start_end_positions(cell_cols, cell_rows)[1]
    /\ end' = start_end_positions(cell_cols, cell_rows)[2]
    /\ pc' = "idle"
    /\ UNCHANGED <<ctlVars, cliVars, seedVars, renderVars, genVars, bfsVars>>

\* ------------------------------------------------------------------ solver
\* The order in which bfs_shortest_path tries the four moves.
BfsMoves == << <<1, 0>>, <<-1, 0>>, <<0, 1>>, <<0, -1>> >>

\* q.popleft() done as q.pop(): the newest element is taken.
Popleft_Pop(s) == [item |-> s[Len(s)], rest |-> SubSeq(s, 1, Len(s) - 1)]

\* q.popleft(): the element taken and the deque left.
Popleft(s) == [item |-> Head(s), rest |-> Tail(s)]

\* The test without the check that the neighbour is a passage.
BfsAdmits_Walls(g, n, gl, pv) ==
    /\ 0 <= n[1] /\ n[1] < Cardinality(DOMAIN g[0])
    /\ 0 <= n[2] /\ n[2] < Cardinality(DOMAIN g)
    /\ n \notin DOMAIN pv

\* The test without `or (nx, ny) == goal`.
BfsAdmits_NoGoal(g, n, gl, pv) ==
    /\ 0 <= n[1] /\ n[1] < Cardinality(DOMAIN g[0])
    /\ 0 <= n[2] /\ n[2] < Cardinality(DOMAIN g)
    /\ g[n[2]][n[1]] = PASSAGE
    /\ n \notin DOMAIN pv

\* The test a neighbour (nx, ny) must pass to be discovered.
BfsAdmits(g, n, gl, pv) ==
    /\ 0 <= n[1] /\ n[1] < GridCols(g)
    /\ 0 <= n[2] /\ n[2] < GridRows(g)
    /\ (g[n[2]][n[1]] = PASSAGE \/ n = gl)
    /\ n \notin DOMAIN pv

\* The for loop over the moves from cur, from move i on; st = [q, prev].
RECURSIVE BfsExpandFrom(_, _, _, _, _)
BfsExpandFrom(g, cur, gl, i, st) ==
    IF i > Len(BfsMoves) THEN st
    ELSE LET n == <<cur[1] + BfsMoves[i][1], cur[2] + BfsMoves[i][2]>>
         IN IF BfsAdmits(g, n, gl, st.prev)
               THEN BfsExpandFrom(g, cur, gl, i + 1,
                        [q |-> Append(st.q, n), prev |-> st.prev @@ (n :> cur)])
               ELSE BfsExpandFrom(g, cur, gl, i + 1, st)

\* The walk over predecessors from cur back to the start (path before reverse).
RECURSIVE BackWalk(_, _)
BackWalk(pv, cur) ==
    IF cur = None THEN <<>> ELSE <<cur>> \o BackWalk(pv, pv[cur])

\* path.reverse() left out.
Reverse_Missing(s) == s

\* path.reverse().
Reverse(s) == [i \in 1 .. Len(s) |-> s[Len(s) + 1 - i]]

\* What bfs_shortest_path returns once the while loop is left.
BfsResult(pv, gl) ==
    IF gl \notin DOMAIN pv THEN <<>> ELSE Reverse(BackWalk(pv, gl))

\* The 's' key in Idle: bfs_shortest_path(grid, start, end) is entered.
Solve ==
    /\ pc = "idle"
    /\ goal' = end
    /\ q' = <<start>>
    /\ prev' = (start :> None)
    /\ path' = <<>>
    /\ pc' = "bfs"
    /\ UNCHANGED <<ctlVars, cliVars, seedVars, renderVars, genVars, grid, start, end>>

\* A while iteration that dequeues a coordinate other than the goal.
BfsExpand ==
    /\ pc = "bfs"
    /\ q # <<>>
    /\ Popleft(q).item # goal
    /\ LET st == BfsExpandFrom(grid, Popleft(q).item, goal, 1,
                               [q |-> Popleft(q).rest, prev |-> prev])
       IN q' = st.q /\ prev' = st.prev
    /\ UNCHANGED <<ctlVars, cliVars, seedVars, renderVars, pc, genVars, grid, start, end, goal, path>>

\* The while loop is left, by break when the goal is dequeued or because the
\* deque is empty, and the function returns.
BfsReturn ==
    /\ pc = "bfs"
    /\ (q # <<>> => Popleft(q).item = goal)
    /\ q' = IF q = <<>> THEN q ELSE Popleft(q).rest
    /\ path' = BfsResult(prev, goal)
    /\ pc' = "solved"
    /\ UNCHANGED <<ctlVars, cliVars, seedVars, renderVars, genVars, grid, start, end, goal, prev>>

\* ------------------------------------------------------------------ specifications
\* Generation of a maze, its grid, and a solve of it.
Next == GenCarve \/ GenPop \/ ToGrid \/ Solve \/ BfsExpand \/ BfsReturn

Spec == Init /\ [][Next]_vars

\* Largest number of cells (columns * rows) of a hand-built grid.
MaxGridCells == 6

\* The grids of cols columns and rows rows.
GridsOf(cols, rows) ==
    [0 .. rows - 1 -> [0 .. cols - 1 -> {PASSAGE, WALL}]]

\* The coordinates of a grid and the ring of coordinates around it.
CoordsAround(cols, rows) == (-1 .. cols) \X (-1 .. rows)

\* bfs_shortest_path entered with any grid, start and goal.
InitBfs ==
    /\ \E cols \in 1 .. MaxGridCells, rows \in 1 .. MaxGridCells :
          /\ cols * rows <= MaxGridCells
          /\ grid \in GridsOf(cols, rows)
          /\ start \in CoordsAround(cols, rows)
          /\ goal \in CoordsAround(cols, rows)
    /\ end = goal
    /\ q = <<start>>
    /\ prev = (start :> None)
    /\ path = <<>>
    /\ pc = "bfs"
    /\ NoGen
    /\ NoSeed
    /\ NoRender
    /\ NoCtl
    /\ NoCli

NextBfs == BfsExpand \/ BfsReturn

SpecBfs == InitBfs /\ [][NextBfs]_vars

\* ------------------------------------------------------------------ seeded construction
\* The module-level generator of Python's `random` is a deterministic state
\* machine: random.seed(s) sets its state to a function of s, and every draw
\* returns a function of the state and advances it.  It is modelled by a
\* linear congruential generator over RngMod states.
\* Number of states of the modelled generator.
RngMod == 16
\* Largest seed given to Maze.
MaxSeed == 1
\* Largest number of cells of a maze constructed with a seed.
MaxSeedCells == 6
Seeds == 0 .. MaxSeed

\* The state random.seed(s) leaves; the seed s is held as <<s>>.
SeedRng(s) == (7 * s[1] + 3) % RngMod
\* The state after one draw.
NextRng(r) == (5 * r + 3) % RngMod
\* The index (from 1) random.choice returns for a list of n elements.
ChoiceIndex(r, n) == ((r \div 2) % n) + 1

\* `if seed is not None`: whether Maze.__init__ seeds the generator.
\* `if seed:` in place of `if seed is not None:`.
SeedApplies_Truthy(s) == s # None /\ s # <<0>>
SeedApplies(s) == s # None

\* The while loop of _generate run to its end with the draws of the
\* generator in state r: the cells, the visited set and the state left.
RECURSIVE GenerateFrom(_, _, _, _, _, _)
GenerateFrom(cs, stk, vis, r, cols, rows) ==
    IF stk = <<>> THEN [cells |-> cs, visited |-> vis, rng |-> r]
    ELSE LET c == stk[Len(stk)]
             neighbors == NeighborsOf(c, vis, cols, rows)
         IN IF neighbors # <<>>
               THEN LET d == neighbors[ChoiceIndex(r, Len(neighbors))]
                        n == Step(c, d)
                    IN GenerateFrom(Carve(cs, c, d, n), Append(stk, n),
                                    vis \cup {n}, NextRng(r), cols, rows)
               ELSE GenerateFrom(cs, SubSeq(stk, 1, Len(stk) - 1), vis, r,
                                 cols, rows)

\* Maze(cell_cols, cell_rows, seed) constructed with the generator in state r.
Maze(cols, rows, s, r) ==
    GenerateFrom([c \in CellsOf(cols, rows) |-> {}], << <<0, 0>> >>,
                 { <<0, 0>> }, IF SeedApplies(s) THEN SeedRng(s) ELSE r,
                 cols, rows)

\* A Maze is constructed, with a seed or with none.  `first` keeps the
\* cells of the first maze built with each seed and counts the builds (to 2).
Construct ==
    \E s \in {<<n>> : n \in Seeds} \cup {None} :
        LET m == Maze(cell_cols, cell_rows, s, rng)
        IN /\ cells' = m.cells
           /\ visited' = m.visited
           /\ stack' = <<>>
           /\ rng' = m.rng
           /\ seed' = s
           /\ first' = IF s = None THEN first
                       ELSE IF first[s[1]].runs = 0
                           THEN [first EXCEPT ![s[1]] = [cells |-> m.cells, runs |-> 1]]
                           ELSE [first EXCEPT ![s[1]].runs = 2]
           /\ pc' = "built"
           /\ UNCHANGED <<ctlVars, cliVars, cell_cols, cell_rows, grid, start, end, bfsVars,
                          renderVars>>

\* Some other use of the module-level generator draws from it.
RandomDraw ==
    /\ rng' = NextRng(rng)
    /\ UNCHANGED <<ctlVars, cliVars, pc, genVars, grid, start, end, bfsVars, seed, first,
                   renderVars>>

\* A process in which mazes of one size are constructed; the generator
\* starts in any state (it is seeded from the system at import).
InitSeed ==
    /\ \E cols \in 1 .. MaxSeedCells, rows \in 1 .. MaxSeedCells :
          /\ cols * rows <= MaxSeedCells
          /\ cell_cols = cols
          /\ cell_rows = rows
          /\ cells = [c \in CellsOf(cols, rows) |-> {}]
    /\ stack = <<>>
    /\ visited = {}
    /\ pc = "start"
    /\ rng \in 0 .. RngMod - 1
    /\ seed = None
    /\ first = [s \in Seeds |-> [cells |-> <<>>, runs |-> 0]]
    /\ grid = <<>>
    /\ start = None
    /\ end = None
    /\ NoBfs
    /\ NoRender
    /\ NoCtl
    /\ NoCli

NextSeed == Construct \/ RandomDraw

SpecSeed == InitSeed /\ [][NextSeed]_vars

\* C3: a Maze constructed with a seed has the cells of the first maze
\* constructed with that seed and those dimensions, whatever draws and
\* constructions happened in between.
C3_SeedDeterministic ==
    (pc = "built" /\ seed # None) => cells = first[seed[1]].cells

\* A second construction with a seed has returned, in a 3x2 grid, and
\* another seed gave another maze.
C3_Witness ==
    /\ pc = "built"
    /\ seed # None
    /\ first[seed[1]].runs = 2
    /\ cell_cols = 3 /\ cell_rows = 2
    /\ \E s \in Seeds : first[s].runs > 0 /\ first[s].cells # first[seed[1]].cells

\* ------------------------------------------------------------------ renderer
PLAYER_GLYPH == "0"
PATH_GLYPH == "U+00B7"
START_MARK == "S"
END_MARK == "E"

\* BOX_MAP: neighbour-wall bits (N=1, E=2, S=4, W=8) to box-drawing character.
BOX_MAP ==
    [b \in 0 .. 15 |->
        CASE b = 0 -> "U+2588"
          [] b = 1 -> "U+2502"
          [] b = 2 -> "U+2500"
          [] b = 3 -> "U+2514"
          [] b = 4 -> "U+2502"
          [] b = 5 -> "U+2502"
          [] b = 6 -> "U+250C"
          [] b = 7 -> "U+251C"
          [] b = 8 -> "U+2500"
          [] b = 9 -> "U+2518"
          [] b = 10 -> "U+2500"
          [] b = 11 -> "U+2534"
          [] b = 12 -> "U+2510"
          [] b = 13 -> "U+2524"
          [] b = 14 -> "U+252C"
          [] b = 15 -> "U+253C"]

\* is_wall that answers True for a coordinate outside the grid.
is_wall_OutsideIsWall(g, nx, ny) ==
    IF ~(0 <= nx /\ nx < GridCols(g) /\ 0 <= ny /\ ny < GridRows(g))
        THEN TRUE
        ELSE g[ny][nx] # PASSAGE

\* is_wall of wall_box_char: outside the grid is not a wall.
is_wall(g, nx, ny) ==
    IF ~(0 <= nx /\ nx < GridCols(g) /\ 0 <= ny /\ ny < GridRows(g))
        THEN FALSE
        ELSE g[ny][nx] # PASSAGE

\* The bits wall_box_char computes for (x, y).
wall_bits(g, x, y) ==
      (IF is_wall(g, x, y - 1) THEN 1 ELSE 0)
    + (IF is_wall(g, x + 1, y) THEN 2 ELSE 0)
    + (IF is_wall(g, x, y + 1) THEN 4 ELSE 0)
    + (IF is_wall(g, x - 1, y) THEN 8 ELSE 0)

\* wall_box_char: BOX_MAP.get(bits, block).
wall_box_char(g, x, y) ==
    LET bits == wall_bits(g, x, y)
    IN IF bits \in DOMAIN BOX_MAP THEN BOX_MAP[bits] ELSE WALL

\* The first loop of build_visual_grid: passages as spaces, walls as box
\* characters.
BaseVisual(g) ==
    [y \in 0 .. GridRows(g) - 1 |->
        [x \in 0 .. GridCols(g) - 1 |->
            IF g[y][x] = PASSAGE THEN " " ELSE wall_box_char(g, x, y)]]

\* visual[c.y][c.x] = glyph.
Put(v, c, glyph) == [v EXCEPT ![c[2]][c[1]] = glyph]

\* The path overlay drawn on passage cells only.
OverlayPath_PassagesOnly(v, ps, st, en, pl) ==
    IF ps = {} THEN v
    ELSE [y \in DOMAIN v |->
            [x \in DOMAIN v[y] |->
                IF <<x, y>> \in ps /\ <<x, y>> # st /\ <<x, y>> # en
                   /\ <<x, y>> # pl /\ v[y][x] = " "
                    THEN PATH_GLYPH ELSE v[y][x]]]

\* The path overlay: the path glyph at every coordinate of a non-empty
\* pathset that is not start, end or player.
OverlayPath(v, ps, st, en, pl) ==
    IF ps = {} THEN v
    ELSE [y \in DOMAIN v |->
            [x \in DOMAIN v[y] |->
                IF <<x, y>> \in ps /\ <<x, y>> # st /\ <<x, y>> # en
                   /\ <<x, y>> # pl
                    THEN PATH_GLYPH ELSE v[y][x]]]

\* The player overlay: `if player:`.
OverlayPlayer(v, pl) == IF pl # None THEN Put(v, pl, PLAYER_GLYPH) ELSE v

\* The markers: "S" at start, then "E" at end.
OverlayMarkers(v, st, en) == Put(Put(v, st, START_MARK), en, END_MARK)

\* build_visual_grid with the player drawn after the markers.
build_visual_grid_PlayerLast(g, st, en, ps, pl) ==
    OverlayPlayer(OverlayMarkers(OverlayPath(BaseVisual(g), ps, st, en, pl),
                                 st, en), pl)

\* build_visual_grid: the rows returned, visual[y][x] the x-th character of
\* row y.
build_visual_grid(g, st, en, ps, pl) ==
    OverlayMarkers(OverlayPlayer(OverlayPath(BaseVisual(g), ps, st, en, pl),
                                 pl), st, en)

\* Largest number of cells of a maze that is rendered.
MaxRenderCells == 3
\* Largest number of coordinates of a rendered pathset.
MaxPathSet == 2

\* The sets of at most k coordinates of C.
RECURSIVE SetsUpTo(_, _)
SetsUpTo(C, k) ==
    IF k = 0 THEN { {} }
    ELSE LET P == SetsUpTo(C, k - 1)
         IN P \cup { sc[1] \cup {sc[2]} : sc \in P \X C }

\* A frame is built for the grid of the maze, with any pathset and player.
Render ==
    /\ pc = "idle"
    /\ LET coords == (0 .. GridCols(grid) - 1) \X (0 .. GridRows(grid) - 1)
       IN \E ps \in SetsUpTo(coords, MaxPathSet), pl \in coords \cup {None} :
            /\ pathset' = ps
            /\ player' = pl
            /\ visual' = build_visual_grid(grid, start, end, ps, pl)
    /\ pc' = "drawn"
    /\ UNCHANGED <<ctlVars, cliVars, genVars, grid, start, end, bfsVars, seedVars>>

\* Generation of a maze and a frame of it.
InitRender ==
    /\ \E cols \in 1 .. MaxRenderCells, rows \in 1 .. MaxRenderCells :
          cols * rows <= MaxRenderCells /\ GenInit(cols, rows)
    /\ grid = <<>>
    /\ start = None
    /\ end = None
    /\ NoBfs
    /\ NoSeed
    /\ NoRender
    /\ NoCtl
    /\ NoCli

NextRender == GenCarve \/ GenPop \/ ToGrid \/ Render

SpecRender == InitRender /\ [][NextRender]_vars

\* A frame has been built.
Drawn == pc = "drawn"

\* The glyph of the frame at the coordinate c.
Shown(c) == visual[c[2]][c[1]]

\* C9 as stated: in every frame the cell at start shows the start marker
\* and the cell at end shows the end marker.
C9_BothMarkers ==
    Drawn => Shown(start) = START_MARK /\ Shown(end) = END_MARK

\* C9, amended: the cell at end shows the end marker in every frame, and
\* the cell at start shows the start marker in every frame of a maze of
\* more than one cell (where start and end differ).
C9_MarkersShown ==
    Drawn =>
        /\ Shown(end) = END_MARK
        /\ (cell_cols * cell_rows >= 2 =>
                start # end /\ Shown(start) = START_MARK)

\* A frame of a maze of several cells in which the player stands on end and
\* the pathset holds start and end.
C9_Witness ==
    /\ Drawn
    /\ start # end
    /\ player = end
    /\ pathset = {start, end}

\* C10: every cell of a frame other than start and end shows the player
\* glyph if it is the player's, else the path glyph if it is in the
\* pathset, else a space for a passage and the box character of its wall
\* bits for a wall; no cell of the player shows the path glyph; the frame
\* has the rows and columns of the grid.
C10_CellGlyphs ==
    Drawn =>
        /\ DOMAIN visual = DOMAIN grid
        /\ \A y \in DOMAIN grid : DOMAIN visual[y] = DOMAIN grid[y]
        /\ \A y \in DOMAIN grid : \A x \in DOMAIN grid[y] :
              LET c == <<x, y>>
              IN /\ (c # start /\ c # end) =>
                        Shown(c) =
                            IF c = player THEN PLAYER_GLYPH
                            ELSE IF c \in pathset THEN PATH_GLYPH
                            ELSE IF grid[y][x] = PASSAGE THEN " "
                            ELSE BOX_MAP[wall_bits(grid, x, y)]
                 /\ (c = player => Shown(c) # PATH_GLYPH)

\* A frame in which the pathset holds a wall cell and the player's cell, the
\* player standing on a passage that is neither start nor end.
C10_Witness ==
    /\ Drawn
    /\ player # None /\ player # start /\ player # end
    /\ grid[player[2]][player[1]] = PASSAGE
    /\ player \in pathset
    /\ \E c \in pathset : grid[c[2]][c[1]] # PASSAGE /\ c # player

\* ------------------------------------------------------------------ maze graph
\* The open edges of the maze: the pairs of adjacent cells of the grid of
\* which at least one records the direction toward the other as open.
OpenEdges ==
    { {ad[1], Step(ad[1], ad[2])} :
        ad \in { x \in Cell \X Dirs :
                    x[2] \in cells[x[1]] /\ Step(x[1], x[2]) \in Cell } }

\* The cells one open direction away from a cell of S.
OpenStep(S) ==
    { n \in Cell : \E a \in S, d \in Dirs : d \in cells[a] /\ n = Step(a, d) }

\* The cells reachable from the cells of S through open directions.
RECURSIVE OpenReach(_)
OpenReach(S) ==
    LET T == S \cup OpenStep(S) IN IF T = S THEN S ELSE OpenReach(T)

\* What is left of the edge set E after removing, again and again, every
\* edge that has an end on no other edge; a graph has no cycle exactly when
\* nothing is left.
RECURSIVE Pruned(_)
Pruned(E) ==
    LET leafEdges == { e \in E : \E a \in e : \A f \in E : a \in f => f = e }
    IN IF leafEdges = {} THEN E ELSE Pruned(E \ leafEdges)

\* The generator has finished.
Generated == pc # "generate"

\* C1: the maze left by the generator when it finishes is a spanning tree:
\* every cell is reachable from (0,0) through open directions, there are
\* exactly cell_cols*cell_rows - 1 open edges, and there is no cycle.
C1_SpanningTree ==
    Generated =>
        /\ OpenReach({ <<0, 0>> }) = Cell
        /\ Cardinality(OpenEdges) = cell_cols * cell_rows - 1
        /\ Pruned(OpenEdges) = {}

\* A finished 3x3 maze in which some cell has three open directions (the
\* tree is not a single corridor).
C1_Witness ==
    /\ Generated
    /\ cell_cols = 3 /\ cell_rows = 3
    /\ \E c \in Cell : Cardinality(cells[c]) = 3

\* C2: in every state of generation the open-direction relation is
\* symmetric and no open direction points outside the cell grid.
C2_Symmetric ==
    \A a \in Cell : \A d \in cells[a] :
        /\ Step(a, d) \in Cell
        /\ OPPOSITE[d] \in cells[Step(a, d)]

\* Generation is under way in a grid of two rows and columns at least, after
\* several carve steps and a pop.
C2_Witness ==
    /\ pc = "generate"
    /\ cell_cols >= 2 /\ cell_rows >= 2
    /\ Cardinality(visited) >= 4
    /\ stack # <<>>
    /\ Len(stack) < Cardinality(visited)

\* C4: the solver returns a non-empty path for the grid of every generated
\* maze, from (1,1) to (2*cell_cols-1, 2*cell_rows-1).
C4_PathFound ==
    pc = "solved" =>
        /\ start = <<1, 1>>
        /\ goal = <<2 * cell_cols - 1, 2 * cell_rows - 1>>
        /\ path # <<>>

\* A solve of a 3x3 maze has returned a path between distinct corners.
C4_Witness ==
    /\ pc = "solved"
    /\ cell_cols = 3 /\ cell_rows = 3
    /\ Len(path) > 1

\* ------------------------------------------------------------------ grid graph
\* The coordinates of the grid.
InGrid(n) ==
    /\ 0 <= n[1] /\ n[1] < GridCols(grid)
    /\ 0 <= n[2] /\ n[2] < GridRows(grid)
GridCoords == (0 .. GridCols(grid) - 1) \X (0 .. GridRows(grid) - 1)

\* A passage cell of the grid.
IsPassage(n) == InGrid(n) /\ grid[n[2]][n[1]] = PASSAGE

\* Two coordinates one step apart in exactly one axis.
Adjacent(a, b) ==
    \/ a[1] = b[1] /\ (a[2] - b[2] = 1 \/ b[2] - a[2] = 1)
    \/ a[2] = b[2] /\ (a[1] - b[1] = 1 \/ b[1] - a[1] = 1)

\* A move may enter a passage cell, or the goal when it is a cell of the grid.
Enterable(n) == IsPassage(n) \/ (InGrid(n) /\ n = goal)

\* S and the coordinates one move away from S.
Grow(S) == S \cup { n \in GridCoords : Enterable(n) /\ \E a \in S : Adjacent(a, n) }

\* The least number of moves from a coordinate of S to the goal, plus k;
\* -1 when no walk reaches the goal.
RECURSIVE DistFrom(_, _)
DistFrom(S, k) ==
    IF goal \in S THEN k
    ELSE LET T == Grow(S) IN IF T = S THEN -1 ELSE DistFrom(T, k + 1)

\* The graph distance from start to goal.
Dist == DistFrom({start}, 0)

\* bfs_shortest_path has returned.
Returned == pc = "solved"

\* C5: the number of steps of a returned non-empty path is the graph
\* distance from start to goal: no walk with fewer steps exists.
C5_Shortest ==
    (Returned /\ path # <<>>) => Len(path) - 1 = Dist

\* A path was returned that is longer than the straight distance between
\* start and goal: it goes around a wall.
C5_Witness ==
    /\ Returned
    /\ path # <<>>
    /\ InGrid(start) /\ InGrid(goal)
    /\ start[2] = goal[2]
    /\ Len(path) - 1 > goal[1] - start[1]
    /\ goal[1] > start[1]

\* C6: a returned non-empty path starts at start, ends at goal, moves one
\* step in one axis at a time and holds no coordinate twice; it is the
\* single element start when start equals goal.
C6_WellFormed ==
    (Returned /\ path # <<>>) =>
        /\ path[1] = start
        /\ path[Len(path)] = goal
        /\ \A i \in 1 .. Len(path) - 1 : Adjacent(path[i], path[i + 1])
        /\ \A i, j \in 1 .. Len(path) : path[i] = path[j] => i = j
        /\ (start = goal => path = <<start>>)

\* A path of four coordinates at least was returned.
C6_Witness == Returned /\ Len(path) >= 4 /\ start # goal

\* C7 as stated: with start and goal in the grid, every coordinate of a
\* returned path, the first and last included, is a passage cell.
C7_AllPassage ==
    (Returned /\ InGrid(start) /\ InGrid(goal)) =>
        \A i \in 1 .. Len(path) : IsPassage(path[i])

\* C7, amended: with start and goal in the grid, every coordinate of a
\* returned path other than its first (start) and its last (goal) is a
\* passage cell, and those two are cells of the grid.
C7_InnerPassage ==
    (Returned /\ InGrid(start) /\ InGrid(goal)) =>
        /\ \A i \in 2 .. Len(path) - 1 : IsPassage(path[i])
        /\ \A i \in 1 .. Len(path) : InGrid(path[i])

\* A path with inner coordinates was returned whose start and goal are
\* both wall cells.
C7_Witness ==
    /\ Returned
    /\ InGrid(start) /\ InGrid(goal)
    /\ Len(path) >= 3
    /\ ~IsPassage(start) /\ ~IsPassage(goal)

\* The number of coordinates dequeued so far.
Dequeued == Cardinality(DOMAIN prev) - Len(q)

\* C8: the solver returns the empty sequence exactly when no walk reaches
\* the goal; until it returns an iteration is always possible and each one
\* dequeues one more coordinate, of at most the grid's cells and start, so
\* the loop ends; the grid is never modified.
C8_EmptyIffUnreachable ==
    /\ [](Returned => (path = <<>> <=> Dist = -1))
    /\ [](pc = "bfs" =>
            /\ ENABLED NextBfs
            /\ Dequeued >= 0
            /\ Cardinality(DOMAIN prev) <= Cardinality(GridCoords) + 1)
    /\ [][grid' = grid]_vars
    /\ [][(pc = "bfs" /\ pc' = "bfs") => Dequeued' = Dequeued + 1]_vars

\* The solver returned the empty sequence after several iterations on a
\* grid in which start and goal are passage cells.
C8_Witness ==
    /\ Returned
    /\ path = <<>>
    /\ IsPassage(start) /\ IsPassage(goal)
    /\ Cardinality(DOMAIN prev) >= 3

\* ------------------------------------------------------------------ controller
\* ord() of the characters main_curses compares a key with, and of one
\* character it does not name.
ord == [q |-> 113, Q |-> 81, n |-> 110, N |-> 78, r |-> 114, R |-> 82,
        s |-> 115, S |-> 83, x |-> 120]
\* What getch returns when its timeout passes with no key.
NoKey == -1
\* The keys a getch can return; NewKeys_LowerOnly is `ch == ord("n")` in
\* place of `ch in (ord("n"), ord("N"))`.
Keys == {ord.q, ord.Q, ord.n, ord.N, ord.r, ord.R, ord.s, ord.S, ord.x}
QuitKeys == {ord.q, ord.Q}
NewKeys_LowerOnly == {ord.n}
NewKeys == {ord.n, ord.N}
RandomizeKeys == {ord.r, ord.R}
SolveKeys == {ord.s, ord.S}

\* The info lines main_curses passes to draw_in_curses.
InfoControls == <<"Controls: n=new maze | s=solve | r=randomize seed | q=quit",
                  "Cells: {cell_cols}x{cell_rows}  Seed: {seed}",
                  "Press s to start solver animation.">>
InfoNoPath == <<"No path found.">>
InfoSolving == <<"Solving: animating path... (press q to abort)">>
InfoSolved == <<"Solved. Press n to generate new maze, r to randomize seed, q to quit.">>

\* The set of the elements of a sequence.
Range(sq) == {sq[k] : k \in 1 .. Len(sq)}

\* The while loop of bfs_shortest_path run to its end: the predecessor map.
RECURSIVE BfsLoop(_, _, _, _)
BfsLoop(g, gl, qq, pv) ==
    IF qq = <<>> THEN pv
    ELSE LET p == Popleft(qq)
         IN IF p.item = gl THEN pv
            ELSE LET st == BfsExpandFrom(g, p.item, gl, 1,
                                         [q |-> p.rest, prev |-> pv])
                 IN BfsLoop(g, gl, st.q, st.prev)

\* bfs_shortest_path(grid, start, goal).
bfs_shortest_path(g, st, gl) == BfsResult(BfsLoop(g, gl, <<st>>, st :> None), gl)

\* getch returns k: the oldest key typed and not yet read, which leaves the
\* queue; with the queue empty, any key typed while getch waits (or no key,
\* when its timeout passes).
Reads(k) ==
    IF inbuf = <<>> THEN inbuf' = inbuf
    ELSE k = Head(inbuf) /\ inbuf' = Tail(inbuf)

\* random.randrange(1 << 30) with the generator in state r; the range of
\* 2^30 seeds is cut down to Seeds.
Randrange(r) == r % (MaxSeed + 1)

\* make_and_draw with `if randomize_seed:` taken as always true.
make_and_draw_AlwaysRandom(randomize_seed, sd, r, cols, rows) ==
    LET m == Maze(cols, rows, <<Randrange(r)>>, NextRng(r))
        se == start_end_positions(cols, rows)
    IN [seed |-> <<Randrange(r)>>, rng |-> m.rng, cells |-> m.cells,
        visited |-> m.visited, grid |-> to_grid(m.cells, cols, rows),
        start |-> se[1], end |-> se[2]]

\* make_and_draw(randomize_seed) up to its draw, entered with the seed sd
\* and the generator in state r: the seed kept, the state of the generator
\* left, and the maze, grid, start and end returned.
make_and_draw(randomize_seed, sd, r, cols, rows) ==
    LET sd1 == IF randomize_seed THEN <<Randrange(r)>> ELSE sd
        r1 == IF randomize_seed THEN NextRng(r) ELSE r
        m == Maze(cols, rows, sd1, r1)
        se == start_end_positions(cols, rows)
    IN [seed |-> sd1, rng |-> m.rng, cells |-> m.cells,
        visited |-> m.visited, grid |-> to_grid(m.cells, cols, rows),
        start |-> se[1], end |-> se[2]]

\* draw_in_curses(stdscr, g, st, en, path=pth, player=pl, info_lines=inf):
\* the frame it builds.
draw_in_curses(g, st, en, pth, pl, inf) ==
    /\ pathset' = Range(pth)
    /\ player' = pl
    /\ visual' = build_visual_grid(g, st, en, Range(pth), pl)
    /\ info' = inf

\* make_and_draw whose caller keeps the grid it had.
MakeAndDraw_StaleGrid(k, randomize_seed) ==
    LET m == make_and_draw(randomize_seed, seed, rng, cell_cols, cell_rows)
    IN /\ Reads(k)
       /\ ch' = k
       /\ seed' = m.seed
       /\ rng' = m.rng
       /\ cells' = m.cells
       /\ visited' = m.visited
       /\ draw_in_curses(m.grid, m.start, m.end, <<>>, None, InfoControls)
       /\ ndraw' = 1
       /\ UNCHANGED <<pc, cell_cols, cell_rows, stack, grid, start, end,
                      bfsVars, first, poll_c, frame_i, poll_timeout, cliVars>>

\* make_and_draw called by the main loop for the key k.
MakeAndDraw(k, randomize_seed) ==
    LET m == make_and_draw(randomize_seed, seed, rng, cell_cols, cell_rows)
    IN /\ Reads(k)
       /\ ch' = k
       /\ seed' = m.seed
       /\ rng' = m.rng
       /\ cells' = m.cells
       /\ visited' = m.visited
       /\ grid' = m.grid
       /\ start' = m.start
       /\ end' = m.end
       /\ draw_in_curses(m.grid, m.start, m.end, <<>>, None, InfoControls)
       /\ ndraw' = 1
       /\ UNCHANGED <<pc, cell_cols, cell_rows, stack, bfsVars, first,
                      poll_c, frame_i, poll_timeout, cliVars>>

\* q or Q read by the main loop and ignored (no break).
KeyQuit_NoBreak ==
    /\ pc = "idle"
    /\ \E k \in QuitKeys : Reads(k) /\ ch' = k
    /\ ndraw' = 0
    /\ UNCHANGED <<pc, genVars, grid, start, end, bfsVars, seedVars,
                   renderVars, info, poll_c, frame_i, poll_timeout, cliVars>>

\* The main loop reads q or Q: break.
KeyQuit ==
    /\ pc = "idle"
    /\ \E k \in QuitKeys : Reads(k) /\ ch' = k
    /\ pc' = "terminated"
    /\ ndraw' = 0
    /\ UNCHANGED <<genVars, grid, start, end, bfsVars, seedVars, renderVars,
                   info, poll_c, frame_i, poll_timeout, cliVars>>

\* getch of the main loop raises KeyboardInterrupt: break.
KeyInterrupt ==
    /\ pc = "idle"
    /\ pc' = "terminated"
    /\ ndraw' = 0
    /\ UNCHANGED <<genVars, grid, start, end, bfsVars, seedVars, renderVars,
                   info, ch, poll_c, frame_i, poll_timeout, inbuf,
                   cliVars>>

\* The main loop reads n or N: make_and_draw(randomize_seed=False).
KeyNew ==
    /\ pc = "idle"
    /\ \E k \in NewKeys : MakeAndDraw(k, FALSE)

\* The main loop reads r or R: make_and_draw(randomize_seed=True).
KeyRandomize ==
    /\ pc = "idle"
    /\ \E k \in RandomizeKeys : MakeAndDraw(k, TRUE)

\* The main loop reads s or S: bfs_shortest_path(grid, start, end); with no
\* path the message is drawn, else the for loop over the path is entered.
KeySolve ==
    /\ pc = "idle"
    /\ \E k \in SolveKeys : Reads(k) /\ ch' = k
    /\ LET pth == bfs_shortest_path(grid, start, end)
       IN /\ path' = pth
          /\ IF pth = <<>>
                THEN /\ draw_in_curses(grid, start, end, <<>>, None, InfoNoPath)
                     /\ ndraw' = 1
                     /\ UNCHANGED <<pc, frame_i>>
                ELSE /\ pc' = "animating"
                     /\ frame_i' = 0
                     /\ ndraw' = 0
                     /\ UNCHANGED <<renderVars, info>>
    /\ UNCHANGED <<genVars, grid, start, end, goal, q, prev, seedVars,
                   poll_c, poll_timeout, cliVars>>

\* The main loop reads any other key: ignored.  With a timeout left on the
\* input, getch can also return with no key.
KeyOther ==
    /\ pc = "idle"
    /\ \E k \in (Keys \ (QuitKeys \cup NewKeys \cup RandomizeKeys \cup SolveKeys))
                  \cup (IF poll_timeout # -1 THEN {NoKey} ELSE {}) : Reads(k) /\ ch' = k
    /\ ndraw' = 0
    /\ UNCHANGED <<pc, genVars, grid, start, end, bfsVars, seedVars,
                   renderVars, info, poll_c, frame_i, poll_timeout, cliVars>>

\* stdscr.timeout(20): the wait of the poll of a frame, in milliseconds.
FramePoll == 20

\* The pass of the for loop in which s or S read by the poll starts the
\* loop over the path again.
AnimFrame_RestartOnS ==
    /\ pc = "animating"
    /\ frame_i < Len(path)
    /\ draw_in_curses(grid, start, end, SubSeq(path, 1, frame_i + 1),
                      path[frame_i + 1], InfoSolving)
    /\ ndraw' = 1
    /\ \E k \in Keys \cup {NoKey} :
          /\ Reads(k)
          /\ poll_c' = k
          /\ IF k \in QuitKeys
                THEN /\ poll_timeout' = -1
                     /\ pc' = "terminated"
                     /\ frame_i' = frame_i
                ELSE /\ poll_timeout' = FramePoll
                     /\ pc' = "animating"
                     /\ frame_i' = IF k \in SolveKeys THEN 0 ELSE frame_i + 1
    /\ UNCHANGED <<genVars, grid, start, end, bfsVars, seedVars, ch, cliVars>>

\* The pass of the for loop in which q or Q leaves the loop with `break`
\* in place of `return`: the code after the loop runs next.
AnimFrame_CancelBreaks ==
    /\ pc = "animating"
    /\ frame_i < Len(path)
    /\ draw_in_curses(grid, start, end, SubSeq(path, 1, frame_i + 1),
                      path[frame_i + 1], InfoSolving)
    /\ ndraw' = 1
    /\ \E k \in Keys \cup {NoKey} :
          /\ Reads(k)
          /\ poll_c' = k
          /\ IF k \in QuitKeys
                THEN /\ poll_timeout' = -1
                     /\ frame_i' = Len(path)
                ELSE /\ poll_timeout' = FramePoll
                     /\ frame_i' = frame_i + 1
    /\ UNCHANGED <<pc, genVars, grid, start, end, bfsVars, seedVars, ch,
                   cliVars>>

\* One pass of the for loop over the path: frame i is drawn, the input is
\* polled, and q or Q ends main_curses.
AnimFrame ==
    /\ pc = "animating"
    /\ frame_i < Len(path)
    /\ draw_in_curses(grid, start, end, SubSeq(path, 1, frame_i + 1),
                      path[frame_i + 1], InfoSolving)
    /\ ndraw' = 1
    /\ \E k \in Keys \cup {NoKey} :
          /\ Reads(k)
          /\ poll_c' = k
          /\ IF k \in QuitKeys
                THEN /\ poll_timeout' = -1
                     /\ pc' = "terminated"
                     /\ frame_i' = frame_i
                ELSE /\ poll_timeout' = FramePoll
                     /\ pc' = "animating"
                     /\ frame_i' = frame_i + 1
    /\ UNCHANGED <<genVars, grid, start, end, bfsVars, seedVars, ch, cliVars>>

\* The code after the for loop without stdscr.timeout(-1).
AnimFinish_NoReset ==
    /\ pc = "animating"
    /\ frame_i = Len(path)
    /\ draw_in_curses(grid, start, end, path, end, InfoSolved)
    /\ ndraw' = 1
    /\ pc' = "idle"
    /\ UNCHANGED <<genVars, grid, start, end, bfsVars, seedVars, ch, poll_c,
                   inbuf,
                   frame_i, poll_timeout, cliVars>>

\* The code after the for loop without its draw_in_curses call.
AnimFinish_NoDraw ==
    /\ pc = "animating"
    /\ frame_i = Len(path)
    /\ poll_timeout' = -1
    /\ ndraw' = 0
    /\ pc' = "idle"
    /\ UNCHANGED <<genVars, grid, start, end, bfsVars, seedVars, ch, poll_c,
                   inbuf,
                   frame_i, renderVars, info, cliVars>>

\* The for loop is left: the input blocks again and the whole path is
\* drawn with the player on the end.
AnimFinish ==
    /\ pc = "animating"
    /\ frame_i = Len(path)
    /\ poll_timeout' = -1
    /\ draw_in_curses(grid, start, end, path, end, InfoSolved)
    /\ ndraw' = 1
    /\ pc' = "idle"
    /\ UNCHANGED <<genVars, grid, start, end, bfsVars, seedVars, ch, poll_c,
                   inbuf,
                   frame_i, cliVars>>

\* Largest number of cells of the maze of a controller.
MaxCtlCells == 4

\* main_curses after its first make_and_draw(), entered with seed None and
\* the generator in any state; no key has been read.
InitCtl ==
    /\ \E cols \in 1 .. MaxCtlCells, rows \in 1 .. MaxCtlCells,
          r0 \in 0 .. RngMod - 1 :
          LET m == make_and_draw(FALSE, None, r0, cols, rows)
          IN /\ cols * rows <= MaxCtlCells
             /\ cell_cols = cols
             /\ cell_rows = rows
             /\ cells = m.cells
             /\ visited = m.visited
             /\ seed = m.seed
             /\ rng = m.rng
             /\ grid = m.grid
             /\ start = m.start
             /\ end = m.end
             /\ visual = build_visual_grid(m.grid, m.start, m.end, {}, None)
    /\ stack = <<>>
    /\ first = <<>>
    /\ pathset = {}
    /\ player = None
    /\ info = InfoControls
    /\ ndraw = 1
    /\ ch = NoKey
    /\ poll_c = NoKey
    /\ frame_i = 0
    /\ poll_timeout = -1
    /\ inbuf = <<>>
    /\ pc = "idle"
    /\ NoBfs
    /\ NoCli

NextCtl ==
    \/ KeyQuit
    \/ KeyInterrupt
    \/ KeyNew
    \/ KeyRandomize
    \/ KeySolve
    \/ KeyOther
    \/ AnimFrame
    \/ AnimFinish

SpecCtl == InitCtl /\ [][NextCtl]_vars

\* ------------------------------------------------------------------ controller claims
\* main_curses has returned.
Terminated == pc = "terminated"
\* The loop over the path is running.
Animating == pc = "animating"
\* The main loop waits for a key.
Idle == pc = "idle"

\* A step that starts after main_curses has returned changes nothing.
TerminatedStays == Terminated => UNCHANGED vars

\* C11: a quit key (q or Q) read by the main loop in Idle, or by the poll of
\* any animation frame, takes the controller to Terminated; and Terminated is
\* absorbing: once there no key is read, no frame is drawn and the maze,
\* the grid and the seed never change.
C11_QuitTerminates ==
    [][/\ (Idle /\ ch' \in QuitKeys => Terminated')
       /\ (Animating /\ poll_c' \in QuitKeys => Terminated')
       /\ TerminatedStays]_vars

\* The animation of a path was cancelled at its third frame.
C11_Witness == Terminated /\ poll_c \in QuitKeys /\ frame_i = 2

\* The frame of index k of the animation is the last one drawn.
FrameShown(k) ==
    /\ pathset = Range(SubSeq(path, 1, k + 1))
    /\ player = path[k + 1]
    /\ info = InfoSolving

\* The step draws the frame of index k of the animation, and only it.
FrameDrawn(k) ==
    /\ pathset' = Range(SubSeq(path, 1, k + 1))
    /\ player' = path[k + 1]
    /\ info' = InfoSolving
    /\ ndraw' = 1

\* C12: when the cancel key (q or Q) is read at the poll that follows
\* animation frame k, the step draws frame k and no other, puts the input
\* back to blocking and ends in Terminated, not Idle; from then on frame k
\* stays the last frame drawn, so no frame of a greater index and no
\* "Solved" frame is ever drawn.
C12_CancelEnds ==
    /\ [][/\ (Animating /\ poll_c' \in QuitKeys =>
                /\ Terminated'
                /\ ~Idle'
                /\ poll_timeout' = -1
                /\ frame_i' = frame_i
                /\ FrameDrawn(frame_i))
          /\ TerminatedStays]_vars
    /\ [](Terminated /\ poll_c \in QuitKeys =>
            FrameShown(frame_i) /\ info # InfoSolved /\ poll_timeout = -1)

\* An animation was cancelled at a frame k >= 1 that is not its last.
C12_Witness ==
    /\ Terminated
    /\ poll_c \in QuitKeys
    /\ frame_i >= 1
    /\ frame_i < Len(path) - 1

\* C13: a solve key read in Idle whose path has length L >= 1 starts the
\* animation at frame 0; each pass draws exactly the frame of the current
\* index i, with the player on path[i] and the trail path[0..i], and a poll
\* that reads no cancel key moves to index i + 1; at index L the whole path
\* is drawn once more with the player on the end and the controller is Idle
\* again.  The index counts the polls and never passes L.
C13_Animation ==
    /\ [][/\ (Idle /\ Animating' =>
                /\ ch' \in SolveKeys
                /\ path' = bfs_shortest_path(grid, start, end)
                /\ Len(path') >= 1
                /\ frame_i' = 0
                /\ ndraw' = 0)
          /\ (Animating /\ frame_i < Len(path) =>
                /\ FrameDrawn(frame_i)
                /\ path' = path
                /\ (poll_c' \notin QuitKeys =>
                        Animating' /\ frame_i' = frame_i + 1)
                /\ (poll_c' \in QuitKeys => Terminated'))
          /\ (Animating /\ frame_i = Len(path) =>
                /\ Idle'
                /\ pathset' = Range(path)
                /\ player' = end
                /\ info' = InfoSolved
                /\ ndraw' = 1
                /\ path' = path)]_vars
    /\ [](Animating => Len(path) >= 1 /\ frame_i <= Len(path))

\* The animation of a path of five coordinates has run to its end.
C13_Witness ==
    /\ Idle
    /\ info = InfoSolved
    /\ Len(path) >= 5
    /\ frame_i = Len(path)
    /\ player = end
    /\ pathset = Range(path)

\* The step is the main loop reading a key of the set K.
KeyRead(K) == Idle /\ ch' \in K /\ ~KeyInterrupt

\* C14: n or N read in Idle leaves the controller Idle and the stored seed
\* unchanged, and replaces the maze and the grid by those generated from the
\* stored seed; whenever a seed is stored, the maze and the grid after the
\* key are the ones before it (so also after any number of such keys).
C14_NewKeepsSeed ==
    [][KeyRead(NewKeys) =>
          /\ Idle'
          /\ seed' = seed
          /\ cells' = Maze(cell_cols, cell_rows, seed, rng).cells
          /\ grid' = to_grid(cells', cell_cols, cell_rows)
          /\ ndraw' = 1
          /\ (seed # None => cells' = cells /\ grid' = grid)]_vars

\* n was read with a seed stored, for a maze of 2 x 2 cells.
C14_Witness ==
    /\ Idle
    /\ ch \in NewKeys
    /\ seed # None
    /\ ndraw = 1
    /\ cell_cols = 2
    /\ cell_rows = 2

\* The maze, the grid, the marks and the seed.
mazeVars == <<cell_cols, cell_rows, cells, grid, start, end, seed>>

\* What draw_in_curses last drew.
screenVars == <<pathset, player, visual, info>>

\* The step leaves main_curses and changes nothing else.
QuitEffect ==
    /\ Terminated'
    /\ ndraw' = 0
    /\ UNCHANGED <<mazeVars, rng, path, screenVars, frame_i, poll_timeout>>

\* The step is make_and_draw(randomize): a maze is built and drawn.
MakeEffect(randomize) ==
    LET m == make_and_draw(randomize, seed, rng, cell_cols, cell_rows)
    IN /\ Idle'
       /\ seed' = m.seed
       /\ rng' = m.rng
       /\ cells' = m.cells
       /\ grid' = m.grid
       /\ start' = m.start
       /\ end' = m.end
       /\ pathset' = {}
       /\ player' = None
       /\ info' = InfoControls
       /\ ndraw' = 1
       /\ UNCHANGED <<cell_cols, cell_rows, path, frame_i, poll_timeout>>

\* The step solves the grid and enters the animation of the path found.
SolveEffect ==
    /\ path' = bfs_shortest_path(grid, start, end)
    /\ IF path' = <<>>
          THEN Idle' /\ info' = InfoNoPath /\ ndraw' = 1
          ELSE Animating' /\ frame_i' = 0 /\ ndraw' = 0 /\ UNCHANGED screenVars
    /\ UNCHANGED <<mazeVars, rng, poll_timeout>>

\* C15: in Idle a key other than n, N, s, S, r, R, q, Q leaves the controller
\* Idle, leaves the maze, the grid, start, end and the seed unchanged and
\* draws nothing; and the upper-case and lower-case forms of each command
\* key make the same transition: the step either form takes is the one
\* effect of that command.
C15_OtherKeysIgnored ==
    [][/\ (KeyRead((Keys \cup {NoKey})
                   \ {ord.n, ord.N, ord.s, ord.S, ord.r, ord.R, ord.q, ord.Q}) =>
                /\ Idle'
                /\ ndraw' = 0
                /\ UNCHANGED <<mazeVars, rng, path, screenVars, frame_i,
                               poll_timeout>>)
       /\ (KeyRead({ord.q}) \/ KeyRead({ord.Q}) => QuitEffect)
       /\ (KeyRead({ord.n}) \/ KeyRead({ord.N}) => MakeEffect(FALSE))
       /\ (KeyRead({ord.r}) \/ KeyRead({ord.R}) => MakeEffect(TRUE))
       /\ (KeyRead({ord.s}) \/ KeyRead({ord.S}) => SolveEffect)]_vars

\* A key that is no command was read after an animation ran to its end: the
\* "Solved" frame is still the last one drawn.
C15_Witness ==
    /\ Idle
    /\ ch = ord.x
    /\ ndraw = 0
    /\ info = InfoSolved
    /\ seed # None

\* C20: in every state of the controller the stored grid is the grid
\* derived from the stored maze, start is (1, 1) and end is
\* (2 * cell_cols - 1, 2 * cell_rows - 1); the solve key, every step of the
\* animation and every step that draws a frame of it leave the maze, the
\* grid, start, end and the seed unchanged; and the grid changes only in a
\* step in which n, N, r or R replaces the maze.
C20_GridOfMaze ==
    /\ [](/\ grid = to_grid(cells, cell_cols, cell_rows)
          /\ start = <<1, 1>>
          /\ end = <<2 * cell_cols - 1, 2 * cell_rows - 1>>)
    /\ [][/\ (KeyRead(SolveKeys) \/ Animating => UNCHANGED mazeVars)
          /\ (grid' # grid =>
                /\ KeyRead(NewKeys \cup RandomizeKeys)
                /\ cells' # cells
                /\ ndraw' = 1)]_vars

\* r replaced the maze of 2 x 2 cells, and its path was then animated.
C20_Witness ==
    /\ Idle
    /\ info = InfoSolved
    /\ seed # None
    /\ cell_cols = 2
    /\ cell_rows = 2
    /\ Len(path) = 5

\* ------------------------------------------------------------------ entry point
\* Largest number of arguments after the program name.
MaxArgs == 3

\* int(): the strings given as arguments that int() accepts, with their
\* values; for any other string int() raises ValueError.
IntOf == ("3" :> 3) @@ (" 2" :> 2) @@ ("-1" :> -1)
\* The strings given as arguments.
ArgStrings == DOMAIN IntOf \cup {"abc", "4.5", ""}

\* The line printed for arguments that are not integers.
Usage == "Usage: python maze_curses_player.py [cell_cols] [cell_rows]"
\* The lines printed for a curses.error.
CursesErrorLines == <<"Curses error: {e}",
                      "If you're on Windows, try: pip install windows-curses">>

\* The sizes getmaxyx() reports, as <<rows, cols>>; None when curses raises.
TermSizes == {None, <<24, 80>>, <<5, 5>>, <<100, 300>>}

Max(a, b) == IF a >= b THEN a ELSE b
Min(a, b) == IF a <= b THEN a ELSE b

\* auto_size_cells_from_terminal() for the terminal size t.
auto_size_cells_from_terminal(t) ==
    LET cols == IF t = None THEN 80 ELSE t[2]
        rows == IF t = None THEN 24 ELSE t[1]
        max_cols == Max(3, (cols - 1) \div 2)
        max_rows == Max(3, (rows - 4) \div 2)
    IN <<Min(40, Max(4, max_cols)), Min(20, Max(4, max_rows))>>

\* `len(sys.argv) >= 3`, sys.argv[0] being the program name.
TwoArgs == Len(argv) >= 2

\* The branch of __main__ taken with two arguments or more: both are
\* converted, and a ValueError prints the usage line and exits with 1.
MainArgs ==
    /\ pc = "main"
    /\ TwoArgs
    /\ IF argv[1] \in DOMAIN IntOf /\ argv[2] \in DOMAIN IntOf
          THEN /\ cell_cols' = IntOf[argv[1]]
               /\ cell_rows' = IntOf[argv[2]]
               /\ pc' = "main_curses"
               /\ UNCHANGED <<stdout, exit_status>>
          ELSE /\ stdout' = Append(stdout, Usage)
               /\ exit_status' = <<1>>
               /\ pc' = "exited"
               /\ UNCHANGED <<cell_cols, cell_rows>>
    /\ UNCHANGED <<argv, cells, stack, visited, grid, start, end, bfsVars,
                   seedVars, renderVars, ctlVars>>

\* The else branch: fewer than two arguments, the size is taken from the
\* terminal.
MainAuto ==
    /\ pc = "main"
    /\ ~TwoArgs
    /\ \E t \in TermSizes :
          /\ cell_cols' = auto_size_cells_from_terminal(t)[1]
          /\ cell_rows' = auto_size_cells_from_terminal(t)[2]
    /\ pc' = "main_curses"
    /\ UNCHANGED <<argv, stdout, exit_status, cells, stack, visited, grid,
                   start, end, bfsVars, seedVars, renderVars, ctlVars>>

\* curses.wrapper(main_curses, ...) raises curses.error.
MainCursesError ==
    /\ pc = "main_curses"
    /\ stdout' = stdout \o CursesErrorLines
    /\ exit_status' = <<1>>
    /\ pc' = "exited"
    /\ UNCHANGED <<argv, genVars, grid, start, end, bfsVars, seedVars,
                   renderVars, ctlVars>>

\* The program is started with any arguments.
InitCli ==
    /\ \E k \in 0 .. MaxArgs : argv \in [1 .. k -> ArgStrings]
    /\ stdout = <<>>
    /\ exit_status = None
    /\ pc = "main"
    /\ grid = <<>>
    /\ start = None
    /\ end = None
    /\ NoGen
    /\ NoBfs
    /\ NoSeed
    /\ NoRender
    /\ NoCtl

NextCli == MainArgs \/ MainAuto \/ MainCursesError

SpecCli == InitCli /\ [][NextCli]_vars

\* One of the two positional arguments is given and is not an integer.
NonIntegerArg == \E k \in 1 .. Min(2, Len(argv)) : argv[k] \notin DOMAIN IntOf

\* C16: whenever a positional argument given on the command line is not an
\* integer, with one argument or with two, the program prints the usage line
\* and exits with a non-zero status, and main_curses is not started.
C16_UsageOnNonInteger ==
    NonIntegerArg /\ pc # "main" =>
        /\ pc = "exited"
        /\ stdout = <<Usage>>
        /\ exit_status # None
        /\ exit_status # <<0>>

\* ------------------------------------------------------------------ generator claims
\* The program of Spec in which the while loop of _generate keeps running:
\* an iteration that can be taken is taken.
SpecGenFair == Init /\ [][Next]_vars /\ WF_vars(GenCarve \/ GenPop)

\* C17: generation terminates for every cell_cols >= 1 and cell_rows >= 1
\* under every sequence of neighbour choices: the stack eventually empties;
\* when it is empty every cell has been visited; and the stack is never
\* empty while a cell is unvisited.
C17_Terminates ==
    /\ <>(stack = <<>>)
    /\ [](stack = <<>> => visited = Cell)
    /\ [](visited # Cell => stack # <<>>)

\* The loop of a maze of 3 x 3 cells has ended: the stack is empty.
C17_Witness ==
    /\ pc = "generate"
    /\ stack = <<>>
    /\ Cardinality(visited) = 9
    /\ cell_cols = 3
    /\ cell_rows = 3

\* The grid coordinate of the maze cell c: (x * 2 + 1, y * 2 + 1).
CellToGrid(cl) == <<cl[1] * 2 + 1, cl[2] * 2 + 1>>

\* C19: the grid derived from a generated maze has 2 * cell_rows + 1 rows of
\* 2 * cell_cols + 1 columns; the grid cell of every maze cell is a passage;
\* the grid cell between two adjacent maze cells is a passage exactly when
\* one of the two cells records the open edge between them; and every cell
\* of the outer border and every cell with both coordinates even is a wall.
C19_GridShape ==
    Generated =>
        /\ DOMAIN grid = 0 .. 2 * cell_rows
        /\ \A gy \in DOMAIN grid : DOMAIN grid[gy] = 0 .. 2 * cell_cols
        /\ \A cl \in Cell : grid[CellToGrid(cl)[2]][CellToGrid(cl)[1]] = PASSAGE
        /\ \A cl \in Cell, d \in Dirs :
              Step(cl, d) \in Cell =>
                  LET b == <<CellToGrid(cl)[1] + DIRS[d][1],
                             CellToGrid(cl)[2] + DIRS[d][2]>>
                  IN grid[b[2]][b[1]] = PASSAGE <=>
                        (d \in cells[cl] \/ OPPOSITE[d] \in cells[Step(cl, d)])
        /\ \A gy \in 0 .. 2 * cell_rows, gx \in 0 .. 2 * cell_cols :
              (\/ gx = 0 \/ gy = 0 \/ gx = 2 * cell_cols \/ gy = 2 * cell_rows
               \/ (gx % 2 = 0 /\ gy % 2 = 0)) => grid[gy][gx] = WALL

\* The grid of a maze of 3 x 3 cells with a wall and an opening between
\* adjacent cells.
C19_Witness ==
    /\ pc = "idle"
    /\ cell_cols = 3
    /\ cell_rows = 3
    /\ grid[1][2] = PASSAGE
    /\ grid[2][1] = WALL
    /\ grid[3][4] = WALL

\* ------------------------------------------------------------------ wall glyphs
\* Largest number of cells of a grid whose walls are drawn.
MaxBoxCells == 9

\* The first loop of build_visual_grid run on the grid.
BoxRender ==
    /\ pc = "box"
    /\ visual' = BaseVisual(grid)
    /\ pc' = "boxed"
    /\ UNCHANGED <<genVars, grid, start, end, bfsVars, seedVars, pathset,
                   player, ctlVars, cliVars>>

\* build_visual_grid entered with any grid.
InitBox ==
    /\ \E cols \in 1 .. MaxBoxCells, rows \in 1 .. MaxBoxCells :
          cols * rows <= MaxBoxCells /\ grid \in GridsOf(cols, rows)
    /\ pc = "box"
    /\ start = None
    /\ end = None
    /\ NoGen
    /\ NoBfs
    /\ NoSeed
    /\ NoRender
    /\ NoCtl
    /\ NoCli

NextBox == BoxRender

SpecBox == InitBox /\ [][NextBox]_vars

\* The coordinate is outside the grid.
Outside(x, y) == ~(0 <= x /\ x < GridCols(grid) /\ 0 <= y /\ y < GridRows(grid))
\* The coordinate is inside the grid and holds a wall.
WallInside(x, y) == ~Outside(x, y) /\ grid[y][x] # PASSAGE
\* Whether the bit of value b (1, 2, 4 or 8) is set in the mask m.
BitSet(b, m) == (m \div b) % 2 = 1
\* The walls of the grid have been drawn.
Boxed == pc = "boxed"
\* The wall cells of the grid.
WallCells ==
    {w \in (0 .. GridCols(grid) - 1) \X (0 .. GridRows(grid) - 1) :
        grid[w[2]][w[1]] # PASSAGE}

\* C18 as stated: for a wall cell (x, y) of any grid, bit 1 of the mask is
\* set exactly when the north neighbour is a wall or lies outside the grid,
\* bit 2 likewise for east, bit 4 for south and bit 8 for west; the glyph is
\* the table entry for the mask, and the table has all 16 masks.
C18_OutsideCountsAsWall ==
    Boxed =>
        /\ DOMAIN BOX_MAP = 0 .. 15
        /\ \A w \in WallCells :
              LET x == w[1]
                  y == w[2]
                  m == wall_bits(grid, x, y)
              IN /\ BitSet(1, m) <=> (WallInside(x, y - 1) \/ Outside(x, y - 1))
                 /\ BitSet(2, m) <=> (WallInside(x + 1, y) \/ Outside(x + 1, y))
                 /\ BitSet(4, m) <=> (WallInside(x, y + 1) \/ Outside(x, y + 1))
                 /\ BitSet(8, m) <=> (WallInside(x - 1, y) \/ Outside(x - 1, y))
                 /\ visual[y][x] = BOX_MAP[m]

\* C18: for a wall cell (x, y) of any grid, bit 1 of the mask is set exactly
\* when the north neighbour lies inside the grid and is a wall, bit 2
\* likewise for east, bit 4 for south and bit 8 for west, so a side that is
\* out of bounds leaves its bit clear; the glyph is the table entry for the
\* mask, and the table has all 16 masks.
C18_InsideWallsOnly ==
    Boxed =>
        /\ DOMAIN BOX_MAP = 0 .. 15
        /\ \A w \in WallCells :
              LET x == w[1]
                  y == w[2]
                  m == wall_bits(grid, x, y)
              IN /\ m \in 0 .. 15
                 /\ BitSet(1, m) <=> WallInside(x, y - 1)
                 /\ BitSet(2, m) <=> WallInside(x + 1, y)
                 /\ BitSet(4, m) <=> WallInside(x, y + 1)
                 /\ BitSet(8, m) <=> WallInside(x - 1, y)
                 /\ visual[y][x] = BOX_MAP[m]

\* A grid of 3 x 3 walls is drawn: the centre has all four bits, the top
\* left corner the bits of east and south only.
C18_Witness ==
    /\ Boxed
    /\ GridCols(grid) = 3
    /\ GridRows(grid) = 3
    /\ wall_bits(grid, 1, 1) = 15
    /\ wall_bits(grid, 0, 0) = 6
    /\ visual[0][0] = BOX_MAP[6]

\* ------------------------------------------------------------------ stack claims
\* The cells a and b are one step apart and each records the direction
\* toward the other as open.
Joined(a, b) ==
    \E d \in Dirs :
        /\ Step(a, d) = b
        /\ d \in cells[a]
        /\ OPPOSITE[d] \in cells[b]

\* C23: at every step of generation every cell on the stack is visited, no
\* cell is on the stack twice, consecutive stack entries are adjacent cells
\* joined by an open edge, the bottom of a non-empty stack is (0, 0), the
\* number of carved edges is the number of visited cells minus one, and
\* every carved edge joins two visited cells.
C23_StackIsPath ==
    pc = "generate" =>
        /\ \A k \in 1 .. Len(stack) : stack[k] \in visited
        /\ \A k, l \in 1 .. Len(stack) : stack[k] = stack[l] => k = l
        /\ \A k \in 1 .. Len(stack) - 1 : Joined(stack[k], stack[k + 1])
        /\ stack # <<>> => stack[1] = <<0, 0>>
        /\ Cardinality(OpenEdges) = Cardinality(visited) - 1
        /\ \A e \in OpenEdges : e \subseteq visited
        /\ \A cl \in Cell \ visited : cells[cl] = {}

\* Generation of a maze of 3 x 3 cells has backtracked and is not over.
C23_Witness ==
    /\ pc = "generate"
    /\ cell_cols = 3
    /\ cell_rows = 3
    /\ Len(stack) >= 3
    /\ Len(stack) + 2 <= Cardinality(visited)
    /\ visited # Cell

\* ------------------------------------------------------------------ input mode claims
\* getch blocks until a key arrives.
Blocking == poll_timeout = -1

\* C21: whenever the controller waits for a key in Idle the input is
\* blocking, also after an animation that ran to its end and after a solve
\* that found no path; the timeout of a frame poll is in force only while
\* the controller is Animating: it is set by a frame of the animation and
\* by no other step, and the step that leaves Animating sets the input
\* back to blocking.
C21_BlockingInIdle ==
    /\ [](Idle => Blocking)
    /\ [](~Blocking => Animating /\ poll_timeout = FramePoll)
    /\ [][/\ (Blocking /\ ~Blocking' =>
                Animating /\ Animating' /\ frame_i < Len(path))
          /\ (Animating /\ ~Animating' => Blocking')]_vars

\* The controller waits in Idle after an animation in which every poll
\* timed out with no key.
C21_Witness ==
    /\ Idle
    /\ Blocking
    /\ info = InfoSolved
    /\ poll_c = NoKey
    /\ ch \in SolveKeys
    /\ frame_i = Len(path)
    /\ frame_i >= 3

\* ------------------------------------------------------------------ type-ahead
\* Largest number of keys typed and not yet read.
MaxBuf == 1
\* Largest number of cells of the maze of a controller with typed-ahead keys.
MaxTypeCells == 2

\* The keys typed while an animation runs.
TypedKeys == {ord.q, ord.n, ord.r, ord.s, ord.x}

\* A key is typed while the animation runs: the terminal queues it for the
\* next getch.
TypeKey ==
    /\ pc = "animating"
    /\ Len(inbuf) < MaxBuf
    /\ \E k \in TypedKeys : inbuf' = Append(inbuf, k)
    /\ UNCHANGED <<pc, genVars, grid, start, end, bfsVars, seedVars,
                   renderVars, info, ndraw, ch, poll_c, frame_i,
                   poll_timeout, cliVars>>

\* main_curses after its first make_and_draw(), with no key typed yet.
InitType ==
    /\ \E cols \in 1 .. MaxTypeCells, rows \in 1 .. MaxTypeCells,
          r0 \in 0 .. RngMod - 1 :
          LET m == make_and_draw(FALSE, None, r0, cols, rows)
          IN /\ cols * rows <= MaxTypeCells
             /\ cell_cols = cols
             /\ cell_rows = rows
             /\ cells = m.cells
             /\ visited = m.visited
             /\ seed = m.seed
             /\ rng = m.rng
             /\ grid = m.grid
             /\ start = m.start
             /\ end = m.end
             /\ visual = build_visual_grid(m.grid, m.start, m.end, {}, None)
    /\ stack = <<>>
    /\ first = <<>>
    /\ pathset = {}
    /\ player = None
    /\ info = InfoControls
    /\ ndraw = 1
    /\ ch = NoKey
    /\ poll_c = NoKey
    /\ frame_i = 0
    /\ poll_timeout = -1
    /\ inbuf = <<>>
    /\ pc = "idle"
    /\ NoBfs
    /\ NoCli

NextType == NextCtl \/ TypeKey

SpecType == InitType /\ [][NextType]_vars

\* The step is the poll of a frame of the animation: a getch, which never
\* lengthens the queue of typed keys.
PollStep == Animating /\ frame_i < Len(path) /\ Len(inbuf') <= Len(inbuf)

\* The step is the main loop reading a key that was typed while an
\* animation ran and was left in the queue.
LeftoverRead == Idle /\ inbuf # <<>> /\ ~KeyInterrupt

\* The poll of a frame that reads a key other than q or Q discards it: the
\* maze, the grid, the seed and the path are unchanged and the animation
\* goes on to its next frame.
PollDiscards ==
    PollStep /\ poll_c' \notin QuitKeys =>
        /\ UNCHANGED <<mazeVars, rng, path, ch>>
        /\ Animating'
        /\ frame_i' = frame_i + 1

====
